---- MODULE Spec2Model ----
(***************************************************************************)
(* Public booking wizard (frontend/app/book/[workspaceId]/page.tsx), the   *)
(* public booking API client (lib/api/publicBooking) and the               *)
(* send-confirmation API route, as one state machine.                      *)
(*                                                                         *)
(* React state is one variable per useState cell.  An event handler runs   *)
(* to completion, so one action is one handler (with the effect that the   *)
(* following render schedules); an async handler is cut at its awaits and  *)
(* continues with the values captured by its closure.                      *)
(***************************************************************************)
EXTENDS Integers, Sequences, FiniteSets, Bags, TLC

(* ------------------------------ bounds --------------------------------- *)

\* submits that pass validation, per wizard session
MaxSubmits == 2
\* availability-range (resp. slot) queries in flight at the same time
MaxInFlight == 1
\* handlers of the staff booking list running at the same time
MaxStaffOps == 2
\* months the calendar cursor may move ahead of the current month (the months
\* behind it hold past days only, as the days before today of the current one)
MaxMonthsAhead == 1

(* --------------------------- value domains ----------------------------- *)

Null == "<null>"
Undefined == "<undefined>"
NoType == "<no type>"
NoDate == <<>>
NoSlot == [slot_start |-> <<>>, slot_end |-> <<>>, is_available |-> FALSE, q_slug |-> NoType]

\* slugs of the booking types the backend lists
TypeSlugs == {"consultation", "massage"}

\* the visitor's local calendar day (the clock behind new Date()), held fixed
\* for the session, as <<year, month, day>>
CurrentDay == <<2024, 12, 15>>

\* day cells of a month grid the model clicks and the backend reports
GridDays == {14, 15}

\* a string is a sequence of characters; " " is the white space trim() removes
SP == " "
NameInputs == {<< >>, <<SP>>, <<"J">>}
EmailInputs == {<< >>, <<SP>>, <<"j", "@">>}
PhoneInputs == {<< >>, <<"5">>}

\* response bodies of a non-OK HTTP answer
HttpErrorBodies == {"", "Internal Server Error"}

(* ---------------------------- pure helpers ----------------------------- *)

RECURSIVE TrimStart(_)
TrimStart(s) == IF s # << >> /\ Head(s) = SP THEN TrimStart(Tail(s)) ELSE s

RECURSIVE TrimEnd(_)
TrimEnd(s) ==
    IF s # << >> /\ s[Len(s)] = SP THEN TrimEnd(SubSeq(s, 1, Len(s) - 1)) ELSE s

\* String.prototype.trim
Trim(s) == TrimEnd(TrimStart(s))

\* the text holds a character that is no white space
HasText(s) == \E i \in 1 .. Len(s) : s[i] # SP

\* x || undefined on a text: the empty text is falsy
OrUndefined(s) == IF s = << >> THEN [some |-> FALSE, val |-> << >>]
                               ELSE [some |-> TRUE, val |-> s]

\* truthiness of an optional text taken from a JSON body
Truthy(o) == o.some /\ o.val # << >>

Digits == <<"0", "1", "2", "3", "4", "5", "6", "7", "8", "9">>

\* UTF-16 code units of the characters of a date string
CodeUnits == [ch \in {"-"} \cup {Digits[i] : i \in 1 .. 10} |->
                 IF ch = "-" THEN 45 ELSE 47 + (CHOOSE i \in 1 .. 10 : Digits[i] = ch)]
CodeUnit(ch) == CodeUnits[ch]

\* String(n) of a natural number
RECURSIVE String(_)
String(n) ==
    IF n < 10 THEN <<Digits[n + 1]>> ELSE String(n \div 10) \o <<Digits[(n % 10) + 1]>>

\* String.prototype.padStart with a one character filler
RECURSIVE padStart(_, _, _)
padStart(s, n, ch) == IF Len(s) >= n THEN s ELSE padStart(<<ch>> \o s, n, ch)

\* a < b on strings: the first differing code unit decides, a proper prefix is less
RECURSIVE StringLess(_, _)
StringLess(a, b) ==
    IF b = << >> THEN FALSE
    ELSE IF a = << >> THEN TRUE
    ELSE IF Head(a) = Head(b) THEN StringLess(Tail(a), Tail(b))
    ELSE CodeUnit(Head(a)) < CodeUnit(Head(b))

\* `${year}-${String(month).padStart(2, "0")}-${String(day).padStart(2, "0")}`
DateString(y, m, d) ==
    String(y) \o <<"-">> \o padStart(String(m), 2, "0")
                \o <<"-">> \o padStart(String(d), 2, "0")

IsLeap(y) == (y % 4 = 0 /\ y % 100 # 0) \/ y % 400 = 0

\* new Date(year, month, 0).getDate()
LastDay(y, m) ==
    IF m = 2 THEN (IF IsLeap(y) THEN 29 ELSE 28)
    ELSE IF m \in {4, 6, 9, 11} THEN 30 ELSE 31

getMonthRange(y, m) ==
    LET from == String(y) \o <<"-">> \o padStart(String(m), 2, "0") \o <<"-", "0", "1">>
        lastDay == LastDay(y, m)
        to == String(y) \o <<"-">> \o padStart(String(m), 2, "0")
                          \o <<"-">> \o padStart(String(lastDay), 2, "0")
    IN  [from |-> from, to |-> to]

\* the day numbers of the grid of one month
monthCalendarDays(y, m) == 1 .. LastDay(y, m)

MonthIndex(y, m) == y * 12 + (m - 1)

WithinMonthBound(y, m) ==
    LET d == MonthIndex(y, m) - MonthIndex(CurrentDay[1], CurrentDay[2])
    IN  0 <= d /\ d <= MaxMonthsAhead

\* todayYYYYMMDD, had the zero based getMonth() been used as it is
todayZeroBasedMonth ==
    LET d == [getFullYear |-> CurrentDay[1], getMonth |-> CurrentDay[2] - 1,
              getDate |-> CurrentDay[3]]
    IN  String(d.getFullYear) \o <<"-">> \o padStart(String(d.getMonth), 2, "0")
                              \o <<"-">> \o padStart(String(d.getDate), 2, "0")

\* todayYYYYMMDD(): getFullYear(), getMonth() + 1, getDate()
todayYYYYMMDD ==
    LET d == [getFullYear |-> CurrentDay[1], getMonth |-> CurrentDay[2] - 1,
              getDate |-> CurrentDay[3]]
    IN  String(d.getFullYear) \o <<"-">> \o padStart(String(d.getMonth + 1), 2, "0")
                                \o <<"-">> \o padStart(String(d.getDate), 2, "0")

\* the ways a fetch fails: the request rejects, or the answer is not OK
Failures ==
    {[kind |-> "network", body |-> ""]} \cup
    {[kind |-> "http", body |-> b] : b \in HttpErrorBodies}

\* message of the Error the API client throws:
\* new Error(await res.text()) for a non-OK answer, fetch's TypeError otherwise
ErrorMessage(f) == IF f.kind = "http" THEN f.body ELSE "Failed to fetch"

\* a ?? b
Coalesce(a, b) == IF a = Undefined \/ a = Null THEN b ELSE a

\* the server's answer to a successful POST /public/{workspace}/bookings
PublicBookingResponse(n) ==
    [booking |-> [id |-> 100 + n, contact_id |-> 200 + n, status |-> "pending"],
     message_channel |-> Null]

\* the closure before createPublicBooking returned
NoBooking == [booking |-> [id |-> 0, contact_id |-> 0, status |-> ""],
              message_channel |-> Null]

\* a PublicAvailabilitySlot of day d at hour h, answered to a query for slug t
Slot(t, d, h, avail) ==
    [slot_start |-> <<d, h>>, slot_end |-> <<d, h + 1>>,
     is_available |-> avail, q_slug |-> t]

\* the slot lists the backend may answer to a query for slug t and day d
SlotResponses(t, d) ==
    { << >>,
      << Slot(t, d, 9, FALSE), Slot(t, d, 10, TRUE) >> }

\* the date lists the backend may answer to a range query of one month: none,
\* or the grid days of the month of from ("YYYY-MM-" and the day)
RangeResponses(from) ==
    {{}, {SubSeq(from, 1, 8) \o padStart(String(day), 2, "0") : day \in GridDays}}

\* BookingStatus
BookingStatuses == {"pending", "confirmed", "cancelled", "completed", "no_show"}

\* the dashboard page has not rendered its list yet
NotLoaded == [workspaceId |-> FALSE, token |-> FALSE, showHistory |-> FALSE,
              loaded |-> FALSE]
NoCard == [id |-> "", status |-> "", contact_id |-> 0, primary_email |-> Null,
           primary_phone |-> Null, email |-> Undefined, phone_number |-> Undefined]

\* the props the pages render a BookingList with: the lists of today's and
\* upcoming bookings, the history list, and the list of the analytics page
ListUsages ==
    {[workspaceId |-> TRUE, token |-> TRUE, showHistory |-> FALSE, loaded |-> TRUE],
     [workspaceId |-> TRUE, token |-> TRUE, showHistory |-> TRUE, loaded |-> TRUE],
     [workspaceId |-> FALSE, token |-> FALSE, showHistory |-> FALSE, loaded |-> TRUE]}

\* contact details a BookingCard may carry: an email, a phone number, neither
CardContacts ==
    {[primary_email |-> "a@b", primary_phone |-> Null],
     [primary_email |-> Null, primary_phone |-> "5"],
     [primary_email |-> Null, primary_phone |-> Null]}

\* the BookingCard of the booking, as the backend lists it with status st
BookingCard(st, contact) ==
    [id |-> "101", status |-> st, contact_id |-> 201,
     primary_email |-> contact.primary_email, primary_phone |-> contact.primary_phone,
     email |-> Undefined, phone_number |-> Undefined]

(* ------------------------------- state --------------------------------- *)

VARIABLES
    \* the useState cells of PublicBookingPage
    step, types, loading, error, selectedType, calendarYear, calendarMonth,
    availableDates, loadingCalendar, selectedDate, slots, selectedSlot,
    fullName, email, phone, submitLoading, successMessage,
    \* requests in flight
    typesReq,       \* the listPublicBookingTypes call of loadTypes is pending
    rangeReqs,      \* pending getPublicAvailabilityRange calls, [slug, from, to]
    slotReqs,       \* pending getPublicAvailability calls, [slug, day]
    sub,            \* the running handleSubmitBooking call: its await and closure
    \* what was observed on the network
    netLog,         \* requests handleSubmitBooking issued, in order
    results,        \* outcome of each creation call
    handlerLog,     \* runs of the send-confirmation route
    formLinkLog,    \* answers to the form link queries
    nSubmits,       \* submits that passed validation
    \* the staff dashboard with its BookingList, and the backend behind it
    dbStatus,           \* status of the booking in the backend
    listProps,          \* props of the rendered BookingList, or NotLoaded
    bookings,           \* the BookingCard the list was rendered with
    selectedBookingId,  \* useState cell of BookingList
    staffOps,           \* running async handlers of the list: await and closure
    refreshing,         \* router.refresh() was called and has not rendered yet
    notice              \* text of the last alert() shown to the staff member

uiVars == <<step, types, loading, error, selectedType, calendarYear, calendarMonth,
            availableDates, loadingCalendar, selectedDate, slots, selectedSlot,
            fullName, email, phone, submitLoading, successMessage>>
netVars == <<typesReq, rangeReqs, slotReqs, sub, netLog, results, handlerLog,
            formLinkLog, nSubmits>>
staffVars == <<dbStatus, listProps, bookings, selectedBookingId, staffOps,
               refreshing, notice>>
vars == <<uiVars, netVars, staffVars>>

contactVars == <<fullName, email, phone>>
calendarVars == <<calendarYear, calendarMonth>>
pipelineVars == <<sub, netLog, results, handlerLog, formLinkLog, nSubmits>>

IdleSub ==
    [pc |-> "idle", attempt |-> 0, slug |-> NoType, slot |-> NoSlot,
     fullName |-> << >>, email |-> << >>, phone |-> << >>, booking |-> NoBooking]

\* useState initial values, and the mount effect that calls loadTypes
Init ==
    /\ step = "type"
    /\ types = {}
    /\ loading = TRUE
    /\ error = Null
    /\ selectedType = NoType
    /\ calendarYear = CurrentDay[1]
    /\ calendarMonth = (CurrentDay[2] - 1) + 1
    /\ availableDates = {}
    /\ loadingCalendar = FALSE
    /\ selectedDate = NoDate
    /\ slots = << >>
    /\ selectedSlot = NoSlot
    /\ fullName = << >>
    /\ email = << >>
    /\ phone = << >>
    /\ submitLoading = FALSE
    /\ successMessage = Null
    /\ typesReq = TRUE
    /\ rangeReqs = << >>
    /\ slotReqs = << >>
    /\ sub = IdleSub
    /\ netLog = << >>
    /\ results = << >>
    /\ handlerLog = << >>
    /\ formLinkLog = << >>
    /\ nSubmits = 0
    /\ dbStatus = "pending"
    /\ listProps = NotLoaded
    /\ bookings = NoCard
    /\ selectedBookingId = Null
    /\ staffOps = EmptyBag
    /\ refreshing = FALSE
    /\ notice = Null

\* the requests in flight, oldest first; their answers arrive in any order
AddReq(q, r) == Append(q, r)
RemoveReq(q, i) == SubSeq(q, 1, i - 1) \o SubSeq(q, i + 1, Len(q))

(* --------------------------- what is rendered -------------------------- *)

\* {error && <div>...</div>}: null and the empty string render nothing
BannerShown == error # Null /\ error # ""

TypeViewShown == step = "type"
\* DateViewShown, had the date view not been tied to the step
DateViewShownAnyStep == selectedType # NoType
DateViewShown == step = "date" /\ selectedType # NoType
DetailsViewShown == step = "details" /\ selectedType # NoType /\ selectedSlot # NoSlot

availableSet == availableDates
today == todayYYYYMMDD

\* the calendar cell of dateStr is enabled
Clickable(dateStr) ==
    LET isAvailable == dateStr \in availableSet
        isPast == StringLess(dateStr, today)
    IN  isAvailable /\ ~isPast

\* availableSlots, had the slot list not been filtered
availableSlotsUnfiltered == {slots[i] : i \in 1 .. Len(slots)}

\* slots.filter((s) => s.is_available)
availableSlots == {slots[i] : i \in {j \in 1 .. Len(slots) : slots[j].is_available}}

(* ------------------------- availability effect ------------------------- *)

\* EffectRuns, had the calendar cursor not been among the dependencies
EffectRunsNoCursorDeps(ns, nt, ny, nm) ==
    /\ <<ns, nt>> # <<step, selectedType>>
    /\ ns = "date"
    /\ nt # NoType

\* the effect with dependencies [step, selectedType, workspaceId, calendarYear,
\* calendarMonth] runs after a render that changed one of them, and returns
\* early unless the step is date and a type is selected
EffectRuns(ns, nt, ny, nm) ==
    /\ <<ns, nt, ny, nm>> # <<step, selectedType, calendarYear, calendarMonth>>
    /\ ns = "date"
    /\ nt # NoType

AvailabilityEffect(ns, nt, ny, nm) ==
    IF EffectRuns(ns, nt, ny, nm)
    THEN /\ Len(rangeReqs) < MaxInFlight
         /\ rangeReqs' = AddReq(rangeReqs,
                [slug |-> nt, from |-> getMonthRange(ny, nm).from,
                 to |-> getMonthRange(ny, nm).to])
         /\ loadingCalendar' = TRUE
    ELSE UNCHANGED <<rangeReqs, loadingCalendar>>

(* ------------------------------ loadTypes ------------------------------ *)

TypesResolve(listed) ==
    /\ typesReq
    /\ typesReq' = FALSE
    /\ types' = listed
    /\ loading' = FALSE
    /\ UNCHANGED <<step, error, selectedType, calendarVars, availableDates,
                   loadingCalendar, selectedDate, slots, selectedSlot, contactVars,
                   submitLoading, successMessage, rangeReqs, slotReqs, pipelineVars>>
    /\ UNCHANGED staffVars

TypesReject(f) ==
    /\ typesReq
    /\ typesReq' = FALSE
    /\ error' = ErrorMessage(f)
    /\ loading' = FALSE
    /\ UNCHANGED <<step, types, selectedType, calendarVars, availableDates,
                   loadingCalendar, selectedDate, slots, selectedSlot, contactVars,
                   submitLoading, successMessage, rangeReqs, slotReqs, pipelineVars>>
    /\ UNCHANGED staffVars

(* --------------------------- steps type, date -------------------------- *)

\* handleSelectType, had the calendar cursor been left where it was
handleSelectTypeKeepsCursor(t) ==
    /\ TypeViewShown /\ ~loading /\ t \in types
    /\ selectedType' = t
    /\ selectedDate' = NoDate
    /\ slots' = << >>
    /\ selectedSlot' = NoSlot
    /\ step' = "date"
    /\ AvailabilityEffect("date", t, calendarYear, calendarMonth)
    /\ UNCHANGED <<types, loading, error, calendarVars, availableDates, contactVars,
                   submitLoading, successMessage, typesReq, slotReqs, pipelineVars>>
    /\ UNCHANGED staffVars

handleSelectType(t) ==
    /\ TypeViewShown /\ ~loading /\ t \in types
    /\ selectedType' = t
    /\ selectedDate' = NoDate
    /\ slots' = << >>
    /\ selectedSlot' = NoSlot
    /\ calendarYear' = CurrentDay[1]
    /\ calendarMonth' = (CurrentDay[2] - 1) + 1
    /\ step' = "date"
    /\ AvailabilityEffect("date", t, CurrentDay[1], (CurrentDay[2] - 1) + 1)
    /\ UNCHANGED <<types, loading, error, availableDates, contactVars, submitLoading,
                   successMessage, typesReq, slotReqs, pipelineVars>>
    /\ UNCHANGED staffVars

RangeResolve(i, dates) ==
    /\ i \in 1 .. Len(rangeReqs)
    /\ dates \in RangeResponses(rangeReqs[i].from)
    /\ rangeReqs' = RemoveReq(rangeReqs, i)
    /\ availableDates' = dates
    /\ loadingCalendar' = FALSE
    /\ UNCHANGED <<step, types, loading, error, selectedType, calendarVars,
                   selectedDate, slots, selectedSlot, contactVars, submitLoading,
                   successMessage, typesReq, slotReqs, pipelineVars>>
    /\ UNCHANGED staffVars

RangeReject(i, f) ==
    /\ i \in 1 .. Len(rangeReqs)
    /\ rangeReqs' = RemoveReq(rangeReqs, i)
    /\ error' = ErrorMessage(f)
    /\ loadingCalendar' = FALSE
    /\ UNCHANGED <<step, types, loading, selectedType, calendarVars, availableDates,
                   selectedDate, slots, selectedSlot, contactVars, submitLoading,
                   successMessage, typesReq, slotReqs, pipelineVars>>
    /\ UNCHANGED staffVars

handleSelectDay(dateStr) ==
    IF StringLess(dateStr, today) \/ dateStr \notin availableSet
    THEN UNCHANGED vars
    ELSE /\ Len(slotReqs) < MaxInFlight
         /\ selectedDate' = dateStr
         /\ selectedSlot' = NoSlot
         /\ loading' = TRUE
         /\ slotReqs' = AddReq(slotReqs, [slug |-> selectedType, day |-> dateStr])
         /\ UNCHANGED <<step, types, error, selectedType, calendarVars, availableDates,
                        loadingCalendar, slots, contactVars, submitLoading,
                        successMessage, typesReq, rangeReqs, pipelineVars, staffVars>>

\* a click on the cell of one day of the displayed month; the button of a cell
\* that is not clickable is disabled and its onClick does nothing
ClickDay(day) ==
    /\ DateViewShown /\ ~loadingCalendar
    /\ day \in monthCalendarDays(calendarYear, calendarMonth)
    /\ LET dateStr == DateString(calendarYear, calendarMonth, day)
       IN  IF Clickable(dateStr) THEN handleSelectDay(dateStr) ELSE UNCHANGED vars

SlotResolve(i, resp) ==
    /\ i \in 1 .. Len(slotReqs)
    /\ resp \in SlotResponses(slotReqs[i].slug, slotReqs[i].day)
    /\ slotReqs' = RemoveReq(slotReqs, i)
    /\ slots' = resp
    /\ loading' = FALSE
    /\ UNCHANGED <<step, types, error, selectedType, calendarVars, availableDates,
                   loadingCalendar, selectedDate, selectedSlot, contactVars,
                   submitLoading, successMessage, typesReq, rangeReqs, pipelineVars>>
    /\ UNCHANGED staffVars

SlotReject(i, f) ==
    /\ i \in 1 .. Len(slotReqs)
    /\ slotReqs' = RemoveReq(slotReqs, i)
    /\ error' = ErrorMessage(f)
    /\ loading' = FALSE
    /\ UNCHANGED <<step, types, selectedType, calendarVars, availableDates,
                   loadingCalendar, selectedDate, slots, selectedSlot, contactVars,
                   submitLoading, successMessage, typesReq, rangeReqs, pipelineVars>>
    /\ UNCHANGED staffVars

\* the cursor <<year, month>> goPrevMonth sets from the cursor <<y, m>>
PrevCursor(y, m) == IF m = 1 THEN <<y - 1, 12>> ELSE <<y, m - 1>>

\* NextCursor, had the year been left alone at the end of the year
NextCursorSameYear(y, m) == IF m = 12 THEN <<y, 1>> ELSE <<y, m + 1>>

\* the cursor <<year, month>> goNextMonth sets from the cursor <<y, m>>
NextCursor(y, m) == IF m = 12 THEN <<y + 1, 1>> ELSE <<y, m + 1>>

goPrevMonth ==
    /\ DateViewShown
    /\ LET ny == PrevCursor(calendarYear, calendarMonth)[1]
           nm == PrevCursor(calendarYear, calendarMonth)[2]
       IN  /\ WithinMonthBound(ny, nm)
           /\ calendarYear' = ny
           /\ calendarMonth' = nm
           /\ AvailabilityEffect(step, selectedType, ny, nm)
    /\ UNCHANGED <<step, types, loading, error, selectedType, availableDates,
                   selectedDate, slots, selectedSlot, contactVars, submitLoading,
                   successMessage, typesReq, slotReqs, pipelineVars>>
    /\ UNCHANGED staffVars

goNextMonth ==
    /\ DateViewShown
    /\ LET ny == NextCursor(calendarYear, calendarMonth)[1]
           nm == NextCursor(calendarYear, calendarMonth)[2]
       IN  /\ WithinMonthBound(ny, nm)
           /\ calendarYear' = ny
           /\ calendarMonth' = nm
           /\ AvailabilityEffect(step, selectedType, ny, nm)
    /\ UNCHANGED <<step, types, loading, error, selectedType, availableDates,
                   selectedDate, slots, selectedSlot, contactVars, submitLoading,
                   successMessage, typesReq, slotReqs, pipelineVars>>
    /\ UNCHANGED staffVars

\* a click on one of the slot buttons of the date view
SelectSlot(s) ==
    /\ DateViewShown /\ selectedDate # NoDate /\ ~loading
    /\ s \in availableSlots
    /\ selectedSlot' = s
    /\ step' = "details"
    /\ AvailabilityEffect("details", selectedType, calendarYear, calendarMonth)
    /\ UNCHANGED <<types, loading, error, selectedType, calendarVars, availableDates,
                   selectedDate, slots, contactVars, submitLoading, successMessage,
                   typesReq, slotReqs, pipelineVars>>
    /\ UNCHANGED staffVars

\* Back of the date view
DateBack ==
    /\ DateViewShown
    /\ step' = "type"
    /\ AvailabilityEffect("type", selectedType, calendarYear, calendarMonth)
    /\ UNCHANGED <<types, loading, error, selectedType, calendarVars, availableDates,
                   selectedDate, slots, selectedSlot, contactVars, submitLoading,
                   successMessage, typesReq, slotReqs, pipelineVars>>
    /\ UNCHANGED staffVars

(* ----------------------------- step details ---------------------------- *)

\* DetailsBack, had it cleared the selected date as well
DetailsBackClearsDate ==
    /\ DetailsViewShown
    /\ step' = "date"
    /\ selectedSlot' = NoSlot
    /\ selectedDate' = NoDate
    /\ AvailabilityEffect("date", selectedType, calendarYear, calendarMonth)
    /\ UNCHANGED <<types, loading, error, selectedType, calendarVars, availableDates,
                   slots, contactVars, submitLoading, successMessage,
                   typesReq, slotReqs, pipelineVars>>
    /\ UNCHANGED staffVars

\* DetailsBack, had it cleared the slot without leaving the step
DetailsBackKeepsStep ==
    /\ DetailsViewShown
    /\ selectedSlot' = NoSlot
    /\ AvailabilityEffect(step, selectedType, calendarYear, calendarMonth)
    /\ UNCHANGED <<step, types, loading, error, selectedType, calendarVars,
                   availableDates, selectedDate, slots, contactVars, submitLoading,
                   successMessage, typesReq, slotReqs, pipelineVars>>
    /\ UNCHANGED staffVars

\* Back of the details view
DetailsBack ==
    /\ DetailsViewShown
    /\ step' = "date"
    /\ selectedSlot' = NoSlot
    /\ AvailabilityEffect("date", selectedType, calendarYear, calendarMonth)
    /\ UNCHANGED <<types, loading, error, selectedType, calendarVars, availableDates,
                   selectedDate, slots, contactVars, submitLoading, successMessage,
                   typesReq, slotReqs, pipelineVars>>
    /\ UNCHANGED staffVars

setFullName(v) ==
    /\ DetailsViewShown /\ v \in NameInputs /\ v # fullName
    /\ fullName' = v
    /\ UNCHANGED <<step, types, loading, error, selectedType, calendarVars,
                   availableDates, loadingCalendar, selectedDate, slots, selectedSlot,
                   email, phone, submitLoading, successMessage, netVars>>
    /\ UNCHANGED staffVars

setEmail(v) ==
    /\ DetailsViewShown /\ v \in EmailInputs /\ v # email
    /\ email' = v
    /\ UNCHANGED <<step, types, loading, error, selectedType, calendarVars,
                   availableDates, loadingCalendar, selectedDate, slots, selectedSlot,
                   fullName, phone, submitLoading, successMessage, netVars>>
    /\ UNCHANGED staffVars

setPhone(v) ==
    /\ DetailsViewShown /\ v \in PhoneInputs /\ v # phone
    /\ phone' = v
    /\ UNCHANGED <<step, types, loading, error, selectedType, calendarVars,
                   availableDates, loadingCalendar, selectedDate, slots, selectedSlot,
                   fullName, email, submitLoading, successMessage, netVars>>
    /\ UNCHANGED staffVars

(* --------------------- send-confirmation API route --------------------- *)

\* a JSON value that is always present in the body
Present(v) == [some |-> TRUE, val |-> v]

\* the handler of POST /api/send-confirmation on the parsed body req; emailOk
\* and smsOk are what sendEmailResend and sendSmsTwilio would answer
SendConfirmationHandler(req, emailOk, smsOk) ==
    IF req.method # "POST"
    THEN [status |-> 405, emailAttempted |-> FALSE, smsAttempted |-> FALSE]
    ELSE IF \/ req.bookingId = 0
            \/ ~Truthy(req.contactName)
            \/ (~Truthy(req.email) /\ ~Truthy(req.phoneNumber))
            \/ ~Truthy(req.startAt)
    THEN [status |-> 400, emailAttempted |-> FALSE, smsAttempted |-> FALSE]
    ELSE IF Truthy(req.email) /\ ~emailOk
    THEN [status |-> 500, emailAttempted |-> TRUE, smsAttempted |-> FALSE]
    ELSE IF Truthy(req.phoneNumber) /\ ~smsOk /\ ~Truthy(req.email)
    THEN [status |-> 500, emailAttempted |-> FALSE, smsAttempted |-> TRUE]
    ELSE [status |-> 200, emailAttempted |-> Truthy(req.email),
          smsAttempted |-> Truthy(req.phoneNumber)]

(* -------------------------- handleSubmitBooking ------------------------ *)

\* ContactPresent, had the inputs not been trimmed
ContactPresentUntrimmed(e, p) == e # << >> \/ p # << >>

\* !email?.trim() && !phone?.trim() is false
ContactPresent(e, p) == Trim(e) # << >> \/ Trim(p) # << >>

\* one request of the pipeline, as logged
Request(kind, c, bookingId) ==
    [kind |-> kind, attempt |-> c.attempt, bookingId |-> bookingId]

\* the JSON body of the confirmation request, as the route parses it
ConfirmationBody(c) ==
    [method |-> "POST",
     bookingId |-> c.booking.booking.id,
     contactName |-> Present(Trim(c.fullName)),
     email |-> OrUndefined(Trim(c.email)),
     phoneNumber |-> OrUndefined(Trim(c.phone)),
     startAt |-> Present(c.slot.slot_start)]

\* handleSubmitBooking, had the submit button stayed enabled while submitting
handleSubmitBookingEnabled ==
    /\ DetailsViewShown /\ fullName # << >>
    /\ selectedType # NoType /\ selectedSlot # NoSlot
    /\ IF ~ContactPresent(email, phone)
       THEN /\ error' = "Please enter email or phone."
            /\ UNCHANGED <<submitLoading, pipelineVars>>
       ELSE /\ nSubmits < MaxSubmits
            /\ submitLoading' = TRUE
            /\ error' = Null
            /\ nSubmits' = nSubmits + 1
            /\ LET c == [pc |-> "create", attempt |-> nSubmits + 1,
                         slug |-> selectedType, slot |-> selectedSlot,
                         fullName |-> fullName, email |-> email, phone |-> phone,
                         booking |-> NoBooking]
               IN  /\ sub' = c
                   /\ netLog' = Append(netLog, Request("create", c, 0))
            /\ UNCHANGED <<results, handlerLog, formLinkLog>>
    /\ UNCHANGED <<step, types, loading, selectedType, calendarVars, availableDates,
                   loadingCalendar, selectedDate, slots, selectedSlot, contactVars,
                   successMessage, typesReq, rangeReqs, slotReqs>>
    /\ UNCHANGED staffVars

\* the form submit event up to the first await; the browser does not submit
\* through a disabled button nor with the required full name empty
handleSubmitBooking ==
    /\ DetailsViewShown /\ ~submitLoading /\ fullName # << >>
    /\ selectedType # NoType /\ selectedSlot # NoSlot
    /\ IF ~ContactPresent(email, phone)
       THEN /\ error' = "Please enter email or phone."
            /\ UNCHANGED <<submitLoading, pipelineVars>>
       ELSE /\ nSubmits < MaxSubmits
            /\ submitLoading' = TRUE
            /\ error' = Null
            /\ nSubmits' = nSubmits + 1
            /\ LET c == [pc |-> "create", attempt |-> nSubmits + 1,
                         slug |-> selectedType, slot |-> selectedSlot,
                         fullName |-> fullName, email |-> email, phone |-> phone,
                         booking |-> NoBooking]
               IN  /\ sub' = c
                   /\ netLog' = Append(netLog, Request("create", c, 0))
            /\ UNCHANGED <<results, handlerLog, formLinkLog>>
    /\ UNCHANGED <<step, types, loading, selectedType, calendarVars, availableDates,
                   loadingCalendar, selectedDate, slots, selectedSlot, contactVars,
                   successMessage, typesReq, rangeReqs, slotReqs>>
    /\ UNCHANGED staffVars

\* setSuccessMessage, setStep("done") and the finally block
Finish ==
    /\ successMessage' = "Booking confirmed. Check your email for details."
    /\ step' = "done"
    /\ submitLoading' = FALSE
    /\ sub' = IdleSub

\* AfterConfirmation, had the form link query been keyed by the contact id
AfterConfirmationByContact(c) ==
    LET contactEmail == Trim(c.email)
    IN  IF contactEmail # << >>
        THEN /\ sub' = [c EXCEPT !.pc = "formq"]
             /\ netLog' = Append(netLog,
                                 Request("form-link-query", c, c.booking.booking.contact_id))
             /\ UNCHANGED <<step, submitLoading, successMessage>>
        ELSE /\ Finish
             /\ UNCHANGED netLog

\* after the confirmation fetch settled: the form link step of the closure c
AfterConfirmation(c) ==
    LET contactEmail == Trim(c.email)
    IN  IF contactEmail # << >>
        THEN /\ sub' = [c EXCEPT !.pc = "formq"]
             /\ netLog' = Append(netLog, Request("form-link-query", c, c.booking.booking.id))
             /\ UNCHANGED <<step, submitLoading, successMessage>>
        ELSE /\ Finish
             /\ UNCHANGED netLog

\* createPublicBooking resolved; the confirmation fetch is issued
CreateResolve ==
    /\ sub.pc = "create"
    /\ LET c == [sub EXCEPT !.pc = "conf",
                            !.booking = PublicBookingResponse(sub.attempt)]
       IN  /\ sub' = c
           /\ results' = Append(results, [attempt |-> c.attempt, outcome |-> "created",
                                          bookingId |-> c.booking.booking.id,
                                          hasEmail |-> HasText(c.email)])
           /\ netLog' = Append(netLog, Request("confirmation", c, c.booking.booking.id))
    /\ UNCHANGED <<uiVars, typesReq, rangeReqs, slotReqs, handlerLog, formLinkLog,
                   nSubmits>>
    /\ UNCHANGED staffVars

\* CreateReject, had the catch block gone on to the done step
CreateRejectToDone(f) ==
    /\ sub.pc = "create"
    /\ error' = Coalesce(ErrorMessage(f), "Booking failed.")
    /\ step' = "done"
    /\ submitLoading' = FALSE
    /\ results' = Append(results, [attempt |-> sub.attempt, outcome |-> "failed",
                                   bookingId |-> 0, hasEmail |-> FALSE])
    /\ sub' = IdleSub
    /\ UNCHANGED <<types, loading, selectedType, calendarVars, availableDates,
                   loadingCalendar, selectedDate, slots, selectedSlot, contactVars,
                   successMessage, typesReq, rangeReqs, slotReqs, netLog, handlerLog,
                   formLinkLog, nSubmits>>
    /\ UNCHANGED staffVars

\* CreateReject, had the catch block called createPublicBooking again
CreateRejectRetry(f) ==
    /\ sub.pc = "create"
    /\ error' = Coalesce(ErrorMessage(f), "Booking failed.")
    /\ results' = Append(results, [attempt |-> sub.attempt, outcome |-> "failed",
                                   bookingId |-> 0, hasEmail |-> FALSE])
    /\ netLog' = Append(netLog, Request("create", sub, 0))
    /\ UNCHANGED <<step, types, loading, selectedType, calendarVars, availableDates,
                   loadingCalendar, selectedDate, slots, selectedSlot, contactVars,
                   submitLoading, successMessage, typesReq, rangeReqs, slotReqs, sub,
                   handlerLog, formLinkLog, nSubmits>>
    /\ UNCHANGED staffVars

\* createPublicBooking threw: the outer catch and the finally block
CreateReject(f) ==
    /\ sub.pc = "create"
    /\ error' = Coalesce(ErrorMessage(f), "Booking failed.")
    /\ submitLoading' = FALSE
    /\ results' = Append(results, [attempt |-> sub.attempt, outcome |-> "failed",
                                   bookingId |-> 0, hasEmail |-> FALSE])
    /\ sub' = IdleSub
    /\ UNCHANGED <<step, types, loading, selectedType, calendarVars, availableDates,
                   loadingCalendar, selectedDate, slots, selectedSlot, contactVars,
                   successMessage, typesReq, rangeReqs, slotReqs, netLog, handlerLog,
                   formLinkLog, nSubmits>>
    /\ UNCHANGED staffVars

\* ConfirmationReject, had the confirmation fetch not been in a try of its own
ConfirmationRejectThrows ==
    /\ sub.pc = "conf"
    /\ error' = "Failed to fetch"
    /\ submitLoading' = FALSE
    /\ sub' = IdleSub
    /\ UNCHANGED <<step, types, loading, selectedType, calendarVars, availableDates,
                   loadingCalendar, selectedDate, slots, selectedSlot, contactVars,
                   successMessage, typesReq, rangeReqs, slotReqs, netLog, results,
                   handlerLog, formLinkLog, nSubmits>>
    /\ UNCHANGED staffVars

\* ConfirmationReject, had the inner catch sent the confirmation once more
ConfirmationRejectResend ==
    /\ sub.pc = "conf"
    /\ netLog' = Append(netLog, Request("confirmation", sub, sub.booking.booking.id))
    /\ UNCHANGED <<uiVars, typesReq, rangeReqs, slotReqs, sub, results, handlerLog,
                   formLinkLog, nSubmits>>
    /\ UNCHANGED staffVars

\* the confirmation fetch rejected before it reached the route
ConfirmationReject ==
    /\ sub.pc = "conf"
    /\ AfterConfirmation(sub)
    /\ UNCHANGED <<types, loading, error, selectedType, calendarVars, availableDates,
                   loadingCalendar, selectedDate, slots, selectedSlot, contactVars,
                   typesReq, rangeReqs, slotReqs, results, handlerLog, formLinkLog,
                   nSubmits>>
    /\ UNCHANGED staffVars

\* the route handled the confirmation request and the fetch resolved; the
\* wizard does not look at the answer
ConfirmationSettle(emailOk, smsOk) ==
    /\ sub.pc = "conf"
    /\ LET req == ConfirmationBody(sub)
           res == SendConfirmationHandler(req, emailOk, smsOk)
       IN  handlerLog' = Append(handlerLog,
               [attempt |-> sub.attempt, bookingId |-> req.bookingId,
                hasEmail |-> Truthy(req.email), hasPhone |-> Truthy(req.phoneNumber),
                status |-> res.status,
                emailAttempted |-> res.emailAttempted,
                smsAttempted |-> res.smsAttempted])
    /\ AfterConfirmation(sub)
    /\ UNCHANGED <<types, loading, error, selectedType, calendarVars, availableDates,
                   loadingCalendar, selectedDate, slots, selectedSlot, contactVars,
                   typesReq, rangeReqs, slotReqs, results, formLinkLog, nSubmits>>
    /\ UNCHANGED staffVars

\* answers of GET .../bookings/{id}/form-link, and a rejected fetch
FormLinkAnswers == {"reject", "not-ok", "bad-json", "no-template", "template"}

\* AfterFormLink, had every OK answer gone on to the form link send
AfterFormLinkAnyOk(c, answer) ==
    IF answer \in {"template", "no-template"}
    THEN /\ sub' = [c EXCEPT !.pc = "formsend"]
         /\ netLog' = Append(netLog, Request("form-link-send", c, c.booking.booking.id))
         /\ UNCHANGED <<step, submitLoading, successMessage>>
    ELSE /\ Finish
         /\ UNCHANGED netLog

\* the form link query settled: only an OK answer with a form_template_id
\* goes on to the form link send
AfterFormLink(c, answer) ==
    IF answer = "template"
    THEN /\ sub' = [c EXCEPT !.pc = "formsend"]
         /\ netLog' = Append(netLog, Request("form-link-send", c, c.booking.booking.id))
         /\ UNCHANGED <<step, submitLoading, successMessage>>
    ELSE /\ Finish
         /\ UNCHANGED netLog

FormLinkSettle(answer) ==
    /\ sub.pc = "formq"
    /\ answer \in FormLinkAnswers
    /\ formLinkLog' = Append(formLinkLog, [attempt |-> sub.attempt, answer |-> answer])
    /\ AfterFormLink(sub, answer)
    /\ UNCHANGED <<types, loading, error, selectedType, calendarVars, availableDates,
                   loadingCalendar, selectedDate, slots, selectedSlot, contactVars,
                   typesReq, rangeReqs, slotReqs, results, handlerLog, nSubmits>>
    /\ UNCHANGED staffVars

\* the form link send settled, whatever its outcome
FormSendSettle ==
    /\ sub.pc = "formsend"
    /\ Finish
    /\ UNCHANGED <<types, loading, error, selectedType, calendarVars, availableDates,
                   loadingCalendar, selectedDate, slots, selectedSlot, contactVars,
                   typesReq, rangeReqs, slotReqs, netLog, results, handlerLog,
                   formLinkLog, nSubmits>>
    /\ UNCHANGED staffVars

(* ------------------------------ BookingList ---------------------------- *)

wizardVars == <<uiVars, netVars>>

\* !x on an optional string
Falsy(x) == x \in {Null, Undefined, ""}

\* the dashboard page is rendered: the list gets its props and the booking as
\* the backend holds it
StaffPageLoad(props, contact) ==
    /\ ~listProps.loaded
    /\ props \in ListUsages
    /\ contact \in CardContacts
    /\ listProps' = props
    /\ bookings' = BookingCard(dbStatus, contact)
    /\ UNCHANGED <<dbStatus, selectedBookingId, staffOps, refreshing, notice, wizardVars>>

\* the row is rendered with an onClick
RowClickable == listProps.loaded /\ ~listProps.showHistory

\* as ControlsRendered, but the buttons are hidden for completed rows only
ControlsRenderedUnlessCompleted(b) ==
    /\ listProps.loaded
    /\ ~listProps.showHistory /\ listProps.workspaceId /\ listProps.token
    /\ b.status # "completed"

\* the Mark completed and No-show buttons are rendered for the row of b
ControlsRendered(b) ==
    /\ listProps.loaded
    /\ ~listProps.showHistory /\ listProps.workspaceId /\ listProps.token
    /\ b.status # "completed" /\ b.status # "no_show"

\* the closure of one running handler and the await it stands at: the booking
\* it was called with, the status it asks for while at "patch", and whether its
\* confirmation send has succeeded
StaffOp(kind, pc, booking, toEmail, to) ==
    [kind |-> kind, pc |-> pc, booking |-> booking, email |-> toEmail, to |-> to,
     sent |-> FALSE]

\* the handlers in flight without op, and with op moved on to its next await
DropOp(op) == staffOps (-) SetToBag({op})

SetOp(op, pc, to) ==
    DropOp(op) (+) SetToBag({[op EXCEPT !.pc = pc, !.to = to, !.sent = TRUE]})

\* alert() is modal: while its dialog is open no handler of the page runs and
\* nothing is rendered
NoAlertOpen == notice = Null

\* the staff member closes the dialog
DismissAlert ==
    /\ ~NoAlertOpen
    /\ notice' = Null
    /\ UNCHANGED <<dbStatus, listProps, bookings, selectedBookingId, staffOps, refreshing,
                   wizardVars>>

\* a click on the row: setSelectedBookingId and sendConfirmationMessage(b) up
\* to its first await
StaffRowClick ==
    /\ RowClickable /\ NoAlertOpen
    /\ selectedBookingId' = bookings.id
    /\ LET booking == bookings
           toEmail == Coalesce(Coalesce(booking.primary_email, booking.email), Undefined)
           phoneNumber ==
               Coalesce(Coalesce(booking.primary_phone, booking.phone_number), Undefined)
       IN  IF Falsy(toEmail) /\ Falsy(phoneNumber)
           THEN /\ notice' = "No email or phone on file for this contact."
                /\ UNCHANGED staffOps
           ELSE IF ~listProps.token
           THEN /\ notice' = "Error sending confirmation: Authentication required"
                /\ UNCHANGED staffOps
           ELSE /\ BagCardinality(staffOps) < MaxStaffOps
                /\ staffOps' = staffOps (+) SetToBag({StaffOp("confirm", "send", booking,
                                                              toEmail, "")})
                /\ UNCHANGED notice
    /\ UNCHANGED <<dbStatus, listProps, bookings, refreshing, wizardVars>>

\* the success alert and router.refresh() that end sendConfirmationMessage
StaffFinish(op) ==
    /\ notice' = "Confirmation sent"
    /\ refreshing' = TRUE
    /\ staffOps' = DropOp(op)

\* after the status update of sendConfirmationMessage: the form link step
AfterStatusUpdate(op) ==
    IF listProps.workspaceId /\ ~Falsy(op.email) /\ op.booking.contact_id # 0
    THEN /\ staffOps' = SetOp(op, "formq", "")
         /\ UNCHANGED <<notice, refreshing>>
    ELSE StaffFinish(op)

\* sendBookingConfirmation resolved
SendResolve(op) ==
    /\ BagIn(op, staffOps) /\ NoAlertOpen
    /\ op.pc = "send"
    /\ LET booking == op.booking
       IN  IF /\ listProps.workspaceId /\ listProps.token
              /\ (booking.status = "pending" \/ booking.status = "confirmed")
           THEN /\ staffOps' = SetOp(op, "patch", "confirmed")
                /\ UNCHANGED <<notice, refreshing>>
           ELSE AfterStatusUpdate(op)
    /\ UNCHANGED <<dbStatus, listProps, bookings, selectedBookingId, wizardVars>>

\* as SendReject, but the status update is attempted after a failed send
SendRejectUpdates(op) ==
    /\ BagIn(op, staffOps) /\ NoAlertOpen
    /\ op.pc = "send"
    /\ staffOps' = DropOp(op) (+) SetToBag({[op EXCEPT !.pc = "patch", !.to = "confirmed"]})
    /\ UNCHANGED <<dbStatus, listProps, bookings, selectedBookingId, refreshing, notice,
                   wizardVars>>

\* sendBookingConfirmation threw: the outer catch
SendReject(op) ==
    /\ BagIn(op, staffOps) /\ NoAlertOpen
    /\ op.pc = "send"
    /\ notice' = "Error sending confirmation"
    /\ staffOps' = DropOp(op)
    /\ UNCHANGED <<dbStatus, listProps, bookings, selectedBookingId, refreshing,
                   wizardVars>>

\* as ConfirmPatchSettle, but a failed update reaches the outer catch
ConfirmPatchSettleThrows(op, ok) ==
    /\ BagIn(op, staffOps) /\ NoAlertOpen
    /\ op.kind = "confirm" /\ op.pc = "patch"
    /\ IF ok
       THEN /\ dbStatus' = op.to
            /\ AfterStatusUpdate(op)
       ELSE /\ notice' = "Error sending confirmation"
            /\ staffOps' = DropOp(op)
            /\ UNCHANGED <<dbStatus, refreshing>>
    /\ UNCHANGED <<listProps, bookings, selectedBookingId, wizardVars>>

\* the status update to confirmed settled; a failure is swallowed
ConfirmPatchSettle(op, ok) ==
    /\ BagIn(op, staffOps) /\ NoAlertOpen
    /\ op.kind = "confirm" /\ op.pc = "patch"
    /\ dbStatus' = IF ok THEN op.to ELSE dbStatus
    /\ AfterStatusUpdate(op)
    /\ UNCHANGED <<listProps, bookings, selectedBookingId, wizardVars>>

\* the form link query of sendConfirmationMessage settled
StaffFormLinkSettle(op, answer) ==
    /\ BagIn(op, staffOps) /\ NoAlertOpen
    /\ op.pc = "formq"
    /\ answer \in FormLinkAnswers
    /\ IF answer = "template"
       THEN /\ staffOps' = SetOp(op, "formsend", "")
            /\ UNCHANGED <<notice, refreshing>>
       ELSE StaffFinish(op)
    /\ UNCHANGED <<dbStatus, listProps, bookings, selectedBookingId, wizardVars>>

\* the form link send of sendConfirmationMessage settled, whatever its outcome
StaffFormSendSettle(op) ==
    /\ BagIn(op, staffOps) /\ NoAlertOpen
    /\ op.pc = "formsend"
    /\ StaffFinish(op)
    /\ UNCHANGED <<dbStatus, listProps, bookings, selectedBookingId, wizardVars>>

\* a click on Mark completed (to = "completed") or No-show (to = "no_show")
MarkClick(to) ==
    /\ ControlsRendered(bookings) /\ NoAlertOpen
    /\ to \in {"completed", "no_show"}
    /\ BagCardinality(staffOps) < MaxStaffOps
    /\ staffOps' = staffOps (+) SetToBag({StaffOp(to, "patch", bookings, Undefined, to)})
    /\ UNCHANGED <<dbStatus, listProps, bookings, selectedBookingId, refreshing, notice,
                   wizardVars>>

\* as MarkSettle, but router.refresh() is called after the alert as well
MarkSettleRefreshes(op, ok) ==
    /\ BagIn(op, staffOps) /\ NoAlertOpen
    /\ op.kind \in {"completed", "no_show"} /\ op.pc = "patch"
    /\ IF ok
       THEN /\ dbStatus' = op.to
            /\ UNCHANGED notice
       ELSE /\ notice' = "Failed to update status"
            /\ UNCHANGED dbStatus
    /\ refreshing' = TRUE
    /\ staffOps' = DropOp(op)
    /\ UNCHANGED <<listProps, bookings, selectedBookingId, wizardVars>>

\* the status update of a button settled: router.refresh(), or the alert
MarkSettle(op, ok) ==
    /\ BagIn(op, staffOps) /\ NoAlertOpen
    /\ op.kind \in {"completed", "no_show"} /\ op.pc = "patch"
    /\ IF ok
       THEN /\ dbStatus' = op.to
            /\ refreshing' = TRUE
            /\ UNCHANGED notice
       ELSE /\ notice' = "Failed to update status"
            /\ UNCHANGED <<dbStatus, refreshing>>
    /\ staffOps' = DropOp(op)
    /\ UNCHANGED <<listProps, bookings, selectedBookingId, wizardVars>>

\* the render that router.refresh() asked for: the list gets the booking as
\* the backend holds it now
RefreshArrives ==
    /\ refreshing /\ NoAlertOpen
    /\ refreshing' = FALSE
    /\ bookings' = [bookings EXCEPT !.status = dbStatus]
    /\ UNCHANGED <<dbStatus, listProps, selectedBookingId, staffOps, notice, wizardVars>>

\* the staff member reloads the page: the running handlers and the component
\* state are gone and the list is rendered from the backend
PageReload ==
    /\ listProps.loaded /\ NoAlertOpen
    /\ bookings' = [bookings EXCEPT !.status = dbStatus]
    /\ selectedBookingId' = Null
    /\ staffOps' = EmptyBag
    /\ refreshing' = FALSE
    /\ UNCHANGED <<dbStatus, listProps, notice, wizardVars>>

\* a status update of another staff session reaches the backend
OtherStaffUpdate(st) ==
    /\ st \in {"confirmed", "completed", "no_show", "cancelled"}
    /\ st # dbStatus
    /\ dbStatus' = st
    /\ UNCHANGED <<listProps, bookings, selectedBookingId, staffOps, refreshing, notice,
                   wizardVars>>

(* ---------------------------- specification ---------------------------- *)

\* answers to the availability and slot queries in flight; with bookable, only
\* the answers that offer something to book
QueryResolves(bookable) ==
    \/ \E i \in 1 .. Len(rangeReqs) :
          \E dates \in RangeResponses(rangeReqs[i].from) :
             /\ bookable => dates # {}
             /\ RangeResolve(i, dates)
    \/ \E i \in 1 .. Len(slotReqs) :
          \E resp \in SlotResponses(slotReqs[i].slug, slotReqs[i].day) :
             /\ bookable => resp # << >>
             /\ SlotResolve(i, resp)

\* failures of the availability and slot queries in flight, of the kinds fs
QueryRejects(fs) ==
    \/ \E i \in 1 .. Len(rangeReqs), f \in fs : RangeReject(i, f)
    \/ \E i \in 1 .. Len(slotReqs), f \in fs : SlotReject(i, f)

\* the visitor's clicks of the type, date and details views
UserNav ==
    \/ \E t \in TypeSlugs : handleSelectType(t)
    \/ \E day \in GridDays : ClickDay(day)
    \/ \E s \in availableSlots : SelectSlot(s)
    \/ DateBack
    \/ DetailsBack

MonthNav ==
    \/ goPrevMonth
    \/ goNextMonth

Typing ==
    \/ \E v \in NameInputs : setFullName(v)
    \/ \E v \in EmailInputs : setEmail(v)
    \/ \E v \in PhoneInputs : setPhone(v)

\* handleSubmitBooking from the submit event to its finally block
Pipeline ==
    \/ handleSubmitBooking
    \/ CreateResolve
    \/ \E f \in Failures : CreateReject(f)
    \/ ConfirmationReject
    \/ \E emailOk \in BOOLEAN, smsOk \in BOOLEAN : ConfirmationSettle(emailOk, smsOk)
    \/ \E a \in FormLinkAnswers : FormLinkSettle(a)
    \/ FormSendSettle

\* the whole wizard
Next ==
    \/ TypesResolve(TypeSlugs)
    \/ \E f \in Failures : TypesReject(f)
    \/ QueryResolves(FALSE)
    \/ QueryRejects(Failures)
    \/ UserNav
    \/ MonthNav
    \/ Typing
    \/ Pipeline

Spec == Init /\ [][Next]_vars

\* a session of booking one listed service in the current month, the backend
\* answering the availability queries with open days and slots: every click,
\* every edit and every outcome of the submission
SubmitNext ==
    \/ TypesResolve({"consultation"})
    \/ QueryResolves(TRUE)
    \/ UserNav
    \/ Typing
    \/ Pipeline

SpecSubmit == Init /\ [][SubmitNext]_vars

\* the network call a running submission awaits resolves or rejects
PipelineSettle ==
    \/ CreateResolve
    \/ \E f \in Failures : CreateReject(f)
    \/ ConfirmationReject
    \/ \E emailOk \in BOOLEAN, smsOk \in BOOLEAN : ConfirmationSettle(emailOk, smsOk)
    \/ \E a \in FormLinkAnswers : FormLinkSettle(a)
    \/ FormSendSettle

\* SpecSubmit where every network call of a submission is eventually answered
SpecSubmitFair == SpecSubmit /\ WF_vars(PipelineSettle)

\* a fetch that rejects before any answer arrives
Rejections == {f \in Failures : f.kind = "network"}

\* a session of browsing the calendar of one listed service: month navigation
\* and the availability queries answered, or rejected, up to the details view
CalendarNext ==
    \/ TypesResolve({"consultation"})
    \/ \E f \in Rejections : TypesReject(f)
    \/ QueryResolves(FALSE)
    \/ QueryRejects(Rejections)
    \/ UserNav
    \/ MonthNav

SpecCalendar == Init /\ [][CalendarNext]_vars

\* a session of browsing the calendar and entering a name, every availability
\* query answered with open days and slots
BrowseNext ==
    \/ TypesResolve({"consultation"})
    \/ QueryResolves(TRUE)
    \/ UserNav
    \/ MonthNav
    \/ \E v \in NameInputs : setFullName(v)

SpecBrowse == Init /\ [][BrowseNext]_vars

\* a session of browsing the calendar in which the queries fail in every way
QueryFailureNext ==
    \/ TypesResolve({"consultation"})
    \/ \E f \in Failures : TypesReject(f)
    \/ QueryResolves(FALSE)
    \/ QueryRejects(Failures)
    \/ UserNav
    \/ MonthNav

SpecQueryFailure == Init /\ [][QueryFailureNext]_vars

\* a session that walks through the steps in every order: the clicks, the
\* month buttons until the first submission, a name and a phone number, and
\* submissions whose creation succeeds or is rejected
StepsNext ==
    \/ TypesResolve({"consultation"})
    \/ QueryResolves(TRUE)
    \/ UserNav
    \/ /\ nSubmits = 0
       /\ MonthNav
    \/ setFullName(<<"J">>)
    \/ setPhone(<<"5">>)
    \/ handleSubmitBooking
    \/ CreateResolve
    \/ \E f \in Rejections : CreateReject(f)
    \/ ConfirmationReject

SpecSteps == Init /\ [][StepsNext]_vars

\* a session of the staff dashboard on one booking
StaffSession ==
    \/ \E props \in ListUsages, contact \in CardContacts : StaffPageLoad(props, contact)
    \/ StaffRowClick
    \/ \E op \in BagToSet(staffOps) : SendResolve(op)
    \/ \E op \in BagToSet(staffOps) : SendReject(op)
    \/ \E op \in BagToSet(staffOps), ok \in BOOLEAN : ConfirmPatchSettle(op, ok)
    \/ \E op \in BagToSet(staffOps), a \in FormLinkAnswers : StaffFormLinkSettle(op, a)
    \/ \E op \in BagToSet(staffOps) : StaffFormSendSettle(op)
    \/ \E to \in {"completed", "no_show"} : MarkClick(to)
    \/ \E op \in BagToSet(staffOps), ok \in BOOLEAN : MarkSettle(op, ok)
    \/ RefreshArrives
    \/ PageReload
    \/ DismissAlert

\* the session, with another staff session writing to the same booking
StaffNext ==
    \/ StaffSession
    \/ \E st \in BookingStatuses : OtherStaffUpdate(st)

SpecStaff == Init /\ [][StaffNext]_vars

\* a session of one page on the booking: of the public wizard going forward
\* to its submissions, while no dashboard shows the booking, or of the staff
\* dashboard, while the wizard page has not got its booking types
NotifyNext ==
    \/ /\ ~listProps.loaded
       /\ \/ TypesResolve({"consultation"})
          \/ QueryResolves(TRUE)
          \/ \E t \in TypeSlugs : handleSelectType(t)
          \/ \E day \in GridDays : ClickDay(day)
          \/ \E s \in availableSlots : SelectSlot(s)
          \/ Typing
          \/ Pipeline
    \/ /\ typesReq
       /\ StaffSession

SpecNotify == Init /\ [][NotifyNext]_vars

(* ------------------------------ properties ----------------------------- *)

\* positions of the log entries of one kind
Issued(kind) == {i \in 1 .. Len(netLog) : netLog[i].kind = kind}
IssuedFor(kind, attempt) == {i \in Issued(kind) : netLog[i].attempt = attempt}

\* positions of the creation calls that succeeded
Succeeded == {k \in 1 .. Len(results) : results[k].outcome = "created"}

NotificationKinds == {"confirmation", "form-link-query", "form-link-send"}

\* a step of a running submission, after its creation call returned a booking
NotificationStep == sub.pc \in {"conf", "formq", "formsend"} /\ sub' # sub

\* C1: the step is done only if a creation call succeeded, and once the
\* submission of a creation call that succeeded has run to its end, with the
\* notification calls settled, the step is done.
C1_DoneIffCreated ==
    /\ step = "done" => Succeeded # {}
    /\ (Succeeded # {} /\ sub.pc = "idle") => step = "done"

\* done after a creation call that failed and a second one that succeeded
C1_Witness ==
    /\ step = "done"
    /\ Len(results) = 2
    /\ results[1].outcome = "failed"
    /\ results[2].outcome = "created"

\* C2: a step in which a creation call fails shows the error banner, issues no
\* request, leaves step, selected type, selected slot and the contact inputs as
\* they were, and ends with submitLoading false.
C2_CreateFailureSurfaced ==
    [][(Len(results') = Len(results) + 1 /\ results'[Len(results')].outcome = "failed")
         => /\ BannerShown'
            /\ netLog' = netLog
            /\ UNCHANGED <<step, selectedType, selectedSlot, contactVars>>
            /\ submitLoading' = FALSE]_vars

\* a creation call failed and left no banner while nothing else is running
C2_Witness ==
    /\ Len(results) = 1
    /\ results[1].outcome = "failed"
    /\ ~BannerShown
    /\ ~submitLoading
    /\ step = "details"

\* C3: every notification request was issued after the creation request of
\* its own submission, that creation call has returned a booking, and the
\* request carries the id of that booking.
C3_CreationPrecedesNotifications ==
    \A i \in 1 .. Len(netLog) :
        netLog[i].kind \in NotificationKinds =>
            /\ \E j \in 1 .. (i - 1) :
                  netLog[j].kind = "create" /\ netLog[j].attempt = netLog[i].attempt
            /\ \E k \in Succeeded :
                  /\ results[k].attempt = netLog[i].attempt
                  /\ results[k].bookingId = netLog[i].bookingId

\* all three notification requests of one submission were issued
C3_Witness ==
    \E i \in Issued("form-link-send") :
        /\ IssuedFor("confirmation", netLog[i].attempt) # {}
        /\ IssuedFor("form-link-query", netLog[i].attempt) # {}

\* C4: a step of a submission whose creation call succeeded, whatever the
\* notification calls answer, leaves the error banner and the creation results
\* as they are, issues nothing but a notification request for the created
\* booking, and either goes on to the next notification call or ends on done.
C4_NotificationFailureHarmless ==
    [][NotificationStep
         => /\ error' = error
            /\ results' = results
            /\ \/ netLog' = netLog
               \/ /\ Len(netLog') = Len(netLog) + 1
                  /\ SubSeq(netLog', 1, Len(netLog)) = netLog
                  /\ netLog'[Len(netLog')].kind \in NotificationKinds
                  /\ netLog'[Len(netLog')].bookingId = sub.booking.booking.id
            /\ \/ sub'.pc \in {"formq", "formsend"} /\ sub'.booking = sub.booking
               \/ sub'.pc = "idle" /\ step' = "done" /\ ~submitLoading']_vars

\* done with no banner although the route answered 500 to the confirmation
\* request and the form link query was rejected
C4_Witness ==
    /\ step = "done"
    /\ ~BannerShown
    /\ \E i \in 1 .. Len(handlerLog) : handlerLog[i].status = 500
    /\ \E i \in 1 .. Len(formLinkLog) : formLinkLog[i].answer = "reject"

\* C5: each creation call that succeeded has exactly one confirmation request
\* and at most one form link send request, and no such request belongs to any
\* other submission: the confirmation requests are as many as the creations
\* that succeeded, the form link send requests at most as many.
C5_OneConfirmationPerCreation ==
    /\ \A k \in Succeeded :
          /\ Cardinality(IssuedFor("confirmation", results[k].attempt)) = 1
          /\ Cardinality(IssuedFor("form-link-send", results[k].attempt)) <= 1
    /\ Cardinality(Issued("confirmation")) = Cardinality(Succeeded)
    /\ Cardinality(Issued("form-link-send")) <= Cardinality(Succeeded)

\* a second submission succeeded after a first one failed, and sent both the
\* confirmation and the form link
C5_Witness ==
    /\ sub.pc = "idle"
    /\ Len(results) = 2
    /\ results[1].outcome = "failed"
    /\ results[2].outcome = "created"
    /\ Issued("confirmation") # {}
    /\ Issued("form-link-send") # {}

\* C6: a creation request is issued only with a type and a slot selected and
\* an email or a phone that holds more than white space; a submit with neither
\* sets the validation error, issues no request and leaves step and
\* submitLoading as they were.
C6_SubmitValidated ==
    [][/\ Issued("create")' # Issued("create")
            => /\ selectedType # NoType
               /\ selectedSlot # NoSlot
               /\ HasText(email) \/ HasText(phone)
       /\ (handleSubmitBooking /\ ~HasText(email) /\ ~HasText(phone))
            => /\ error' = "Please enter email or phone."
               /\ UNCHANGED <<netVars, step, submitLoading>>]_vars

\* the validation error stands for a submit with a blank email and no phone,
\* and nothing was ever requested
C6_Witness ==
    /\ error = "Please enter email or phone."
    /\ email = <<SP>>
    /\ phone = << >>
    /\ netLog = << >>
    /\ step = "details"
    /\ ~submitLoading

\* C7: the creation requests are one per submit that passed validation, never
\* two for the same submit, and with no submission running each of them has
\* its outcome: after a failure none is pending until the next submit.
C7_NoCreationRetry ==
    /\ Cardinality(Issued("create")) = nSubmits
    /\ \A n \in 1 .. nSubmits : Cardinality(IssuedFor("create", n)) = 1
    /\ sub.pc = "idle" => Cardinality(Issued("create")) = Len(results)
    /\ sub.pc = "create" => Cardinality(Issued("create")) = Len(results) + 1

\* after a failed creation the visitor submitted again
C7_Witness ==
    /\ Len(results) = 1
    /\ results[1].outcome = "failed"
    /\ Cardinality(Issued("create")) = 2
    /\ sub.pc = "create"

\* C8: the route, run for a confirmation request with a phone number and no
\* email, attempts the SMS and no email, and a submission without an email
\* issues neither the form link query nor the form link send.
C8_PhoneOnlySmsOnly ==
    /\ \A i \in 1 .. Len(handlerLog) :
          (~handlerLog[i].hasEmail /\ handlerLog[i].hasPhone)
              => ~handlerLog[i].emailAttempted /\ handlerLog[i].smsAttempted
    /\ \A k \in Succeeded :
          ~results[k].hasEmail
              => /\ IssuedFor("form-link-query", results[k].attempt) = {}
                 /\ IssuedFor("form-link-send", results[k].attempt) = {}

\* a phone only booking of a visitor whose full name is blank ended on done
\* with no delivery attempted
C8_Witness ==
    /\ step = "done"
    /\ \E i \in 1 .. Len(handlerLog) :
          /\ ~handlerLog[i].hasEmail /\ handlerLog[i].hasPhone
          /\ handlerLog[i].status = 400
          /\ ~handlerLog[i].smsAttempted

\* C9: a form link send request is issued only for a submission with an email
\* whose form link query was answered OK with a form_template_id; any other
\* answer is followed by no send; and once the confirmation call has settled,
\* whatever its outcome, the form link query is issued exactly when the
\* submission has an email.
C9_FormLinkSendOnlyWithTemplate ==
    /\ \A i \in Issued("form-link-send") :
          /\ \E k \in Succeeded :
                results[k].attempt = netLog[i].attempt /\ results[k].hasEmail
          /\ \E j \in 1 .. Len(formLinkLog) :
                /\ formLinkLog[j].attempt = netLog[i].attempt
                /\ formLinkLog[j].answer = "template"
    /\ \A j \in 1 .. Len(formLinkLog) :
          formLinkLog[j].answer # "template"
              => IssuedFor("form-link-send", formLinkLog[j].attempt) = {}
    /\ \A k \in Succeeded :
          LET n == results[k].attempt
              settled == ~(sub.pc = "conf" /\ sub.attempt = n)
          IN  /\ (settled /\ results[k].hasEmail)
                     => Cardinality(IssuedFor("form-link-query", n)) = 1
              /\ ~results[k].hasEmail => IssuedFor("form-link-query", n) = {}

\* the form link was sent although the route answered 500 to the confirmation
\* request of the same submission
C9_Witness ==
    \E i \in Issued("form-link-send") :
        \E h \in 1 .. Len(handlerLog) :
            handlerLog[h].attempt = netLog[i].attempt /\ handlerLog[h].status = 500

\* the calendar day a is before the calendar day b, both <<year, month, day>>
DayBefore(a, b) ==
    \/ a[1] < b[1]
    \/ a[1] = b[1] /\ a[2] < b[2]
    \/ a[1] = b[1] /\ a[2] = b[2] /\ a[3] < b[3]

\* the day of the displayed month may be selected: its date is in the held
\* availability set and it is not before the current day
MayBeSelected(day) ==
    /\ DateString(calendarYear, calendarMonth, day) \in availableDates
    /\ ~DayBefore(<<calendarYear, calendarMonth, day>>, CurrentDay)

\* C10: a step that sets the selected date or issues a slot query does so for a
\* day whose date is in the availability set held at that moment and which is
\* not before the current day, and a click on the cell of any other day
\* changes nothing.
C10_OnlyAvailableDaysFromToday ==
    [][/\ \/ selectedDate' # selectedDate /\ selectedDate' # NoDate
          \/ slotReqs' # slotReqs /\ Len(slotReqs') >= Len(slotReqs)
            => \E day \in monthCalendarDays(calendarYear, calendarMonth) :
                  /\ MayBeSelected(day)
                  /\ selectedDate' = DateString(calendarYear, calendarMonth, day)
                  /\ slotReqs' = Append(slotReqs, [slug |-> selectedType,
                                                   day |-> selectedDate'])
       /\ \A day \in GridDays :
             (ClickDay(day) /\ ~MayBeSelected(day)) => UNCHANGED vars]_vars

\* the current day is selected while the availability set holds the day before
C10_Witness ==
    /\ selectedDate = DateString(CurrentDay[1], CurrentDay[2], CurrentDay[3])
    /\ DateString(CurrentDay[1], CurrentDay[2], CurrentDay[3] - 1) \in availableDates
    /\ slotReqs # << >>

\* C11: after every step a selected slot is one the backend answered with
\* is_available true to a slot query, and a date is selected with it; a step
\* that selects a slot takes it from the loaded slot list and sets the step to
\* details.
C11_SelectedSlotAvailable ==
    [][/\ selectedSlot' # NoSlot
            => /\ selectedSlot'.is_available
               /\ selectedDate' # NoDate
               /\ \E resp \in SlotResponses(selectedSlot'.q_slug,
                                         selectedSlot'.slot_start[1]) :
                     \E i \in 1 .. Len(resp) : resp[i] = selectedSlot'
       /\ (selectedSlot' # selectedSlot /\ selectedSlot' # NoSlot)
            => /\ step' = "details"
               /\ selectedDate # NoDate
               /\ \E i \in 1 .. Len(slots) : slots[i] = selectedSlot']_vars

\* the details step with the available slot of a list that also held one that
\* is not available
C11_Witness ==
    /\ step = "details"
    /\ selectedSlot # NoSlot
    /\ selectedDate # NoDate
    /\ \E i \in 1 .. Len(slots) : ~slots[i].is_available

\* C12: a step from the type step goes to the date step with one of the
\* listed types selected, no date, no slots and no slot selected, the calendar
\* cursor on the current year and month, and the contact inputs as they were.
C12_SelectTypeResets ==
    [][(step = "type" /\ step' # "type")
         => /\ step' = "date"
            /\ selectedType' \in types
            /\ selectedDate' = NoDate
            /\ slots' = << >>
            /\ selectedSlot' = NoSlot
            /\ calendarYear' = CurrentDay[1]
            /\ calendarMonth' = CurrentDay[2]
            /\ UNCHANGED contactVars]_vars

\* a type was selected again after a name had been entered for a slot of
\* another month: the name is kept, the date is cleared and the cursor is back
\* on the current month while the availability of the other month is held
C12_Witness ==
    /\ step = "date"
    /\ fullName # << >>
    /\ selectedDate = NoDate
    /\ slots = << >>
    /\ <<calendarYear, calendarMonth>> = <<CurrentDay[1], CurrentDay[2]>>
    /\ \E d \in availableDates :
          SubSeq(d, 1, 7) # SubSeq(DateString(CurrentDay[1], CurrentDay[2], 1), 1, 7)

\* C13: a step from the details step to the date step clears the selected
\* slot and leaves the selected type, the selected date, the loaded slots, the
\* calendar cursor and the contact inputs as they were.
C13_DetailsBackKeepsContext ==
    [][(step = "details" /\ step' = "date")
         => /\ selectedSlot' = NoSlot
            /\ UNCHANGED <<selectedType, selectedDate, slots, calendarVars,
                           contactVars>>]_vars

\* back on the date step with the date, the slots and the entered name kept
C13_Witness ==
    /\ step = "date"
    /\ selectedSlot = NoSlot
    /\ selectedDate # NoDate
    /\ slots # << >>
    /\ fullName # << >>

\* C14: a step at the date step that moves the calendar cursor issues one
\* availability range query, for the selected type and from the first to the
\* last day of the month the cursor moved to, and leaves the step, the
\* selected type, the selected date, the loaded slots and the selected slot as
\* they were.
C14_MonthNavigationQueries ==
    [][(step = "date" /\ calendarVars' # calendarVars)
         => /\ rangeReqs' = Append(rangeReqs,
                  [slug |-> selectedType,
                   from |-> DateString(calendarYear', calendarMonth', 1),
                   to |-> DateString(calendarYear', calendarMonth',
                                     LastDay(calendarYear', calendarMonth'))])
            /\ UNCHANGED <<step, selectedType, selectedDate, slots,
                           selectedSlot>>]_vars

\* the query of the next month is in flight while a date of the current month
\* stays selected with its slots
C14_Witness ==
    /\ step = "date"
    /\ selectedDate # NoDate
    /\ slots # << >>
    /\ \E i \in 1 .. Len(rangeReqs) :
          /\ rangeReqs[i].from # DateString(CurrentDay[1], CurrentDay[2], 1)
          /\ rangeReqs[i].from = DateString(calendarYear, calendarMonth, 1)

\* C15: a step in which an availability range query or a slot query fails
\* shows the error banner, issues no query, and leaves the availability set
\* and the slot list as they were.
C15_QueryFailureShown ==
    [][(\/ \E i \in 1 .. Len(rangeReqs), f \in Failures : RangeReject(i, f)
        \/ \E i \in 1 .. Len(slotReqs), f \in Failures : SlotReject(i, f))
         => /\ BannerShown'
            /\ Len(rangeReqs') <= Len(rangeReqs)
            /\ Len(slotReqs') <= Len(slotReqs)
            /\ UNCHANGED <<availableDates, slots>>]_vars

\* a query failed and no banner is shown, the held availability still there
C15_Witness ==
    /\ error = ""
    /\ step = "date"
    /\ availableDates # {}
    /\ rangeReqs = << >>
    /\ slotReqs = << >>

\* C16: once the step is done, every step leaves it done.
C16_DoneAbsorbing == [][step = "done" => step' = "done"]_vars

\* done while the answer to an availability range query is still to arrive
C16_Witness ==
    /\ step = "done"
    /\ rangeReqs # << >>

\* the status updates a step sends: the handlers that stand at their status
\* update after the step and did not before
StatusRequests ==
    {o \in BagToSet(staffOps') :
        o.pc = "patch" /\ CopiesIn(o, staffOps') > CopiesIn(o, staffOps)}

\* the handlers of sendConfirmationMessage a step moves on or ends
ConfirmSteps ==
    {o \in BagToSet(staffOps) :
        o.kind = "confirm" /\ CopiesIn(o, staffOps') < CopiesIn(o, staffOps)}

\* C17: the notifications of the wizard never come with a status update: its
\* requests are the creation, the confirmation and the two form link calls,
\* and a step of it leaves the status and the staff handlers alone; on the
\* staff side a status update sent by sendConfirmationMessage asks for
\* confirmed and follows its successful send, and a step of that handler
\* changes the status only by that update
C17_StatusOnlyByStaffConfirmation ==
    [][/\ \A i \in 1 .. Len(netLog') :
            netLog'[i].kind \in {"create"} \cup NotificationKinds
       /\ netVars' # netVars => dbStatus' = dbStatus /\ staffOps' = staffOps
       /\ \A o \in StatusRequests :
            o.kind = "confirm" => o.to = "confirmed" /\ o.sent
       /\ ConfirmSteps # {} /\ dbStatus' # dbStatus =>
            /\ dbStatus' = "confirmed"
            /\ \E o \in ConfirmSteps : o.pc = "patch" /\ o.to = "confirmed" /\ o.sent
      ]_vars

\* the staff member clicked the row of a pending booking, the send succeeded,
\* the update made the booking confirmed and the handler ended with its notice
C17_Witness ==
    /\ dbStatus = "confirmed"
    /\ bookings.status = "pending"
    /\ notice = "Confirmation sent"
    /\ refreshing

\* completed and no_show
TerminalStatuses == {"completed", "no_show"}

\* C18: once the backend holds the booking as completed or no_show, no step of
\* the staff list sends a status update that asks for another status
C18_TerminalIrreversible ==
    [][(dbStatus \in TerminalStatuses) =>
            (\A o \in StatusRequests : o.to = dbStatus)]_vars

\* the list shows the booking as completed after its own Mark completed and
\* refresh, and a sendConfirmationMessage started before stands at its status
\* update to confirmed
C18_Witness ==
    /\ dbStatus = "completed"
    /\ bookings.status = "completed"
    /\ \E o \in BagToSet(staffOps) :
          o.kind = "confirm" /\ o.pc = "patch" /\ o.to = "confirmed"

C20_MarkOnlyPendingOrConfirmed ==
    [][\A o \in StatusRequests :
          o.to \in TerminalStatuses => bookings.status \in {"pending", "confirmed"}]_vars

\* a button of a row rendered as cancelled was clicked and its status update
\* is in flight
C20_Witness ==
    \E o \in BagToSet(staffOps) :
        /\ o.kind \in TerminalStatuses /\ o.pc = "patch"
        /\ o.booking.status = "cancelled"

\* the form link requests a step of the staff list sends
FormLinkRequests ==
    {o \in BagToSet(staffOps') :
        o.pc \in {"formq", "formsend"} /\ CopiesIn(o, staffOps') > CopiesIn(o, staffOps)}

\* C21: sendConfirmationMessage sends its status update to confirmed only
\* after its confirmation send succeeded and only while the booking is pending
\* or confirmed; a failed send is followed by no status update and no form
\* link request, and an alert tells the staff member
C21_ConfirmUpdateAfterSend ==
    [][/\ \A o \in StatusRequests :
            o.kind = "confirm" => o.sent /\ dbStatus \in {"pending", "confirmed"}
       /\ \A op \in BagToSet(staffOps) :
            SendReject(op) =>
                /\ StatusRequests = {}
                /\ FormLinkRequests = {}
                /\ notice' # Null
      ]_vars

\* a confirmation was sent for a row clicked while it was pending, and the
\* handler stands at its update to confirmed of a booking that is no_show
C21_Witness ==
    /\ dbStatus = "no_show"
    /\ \E o \in BagToSet(staffOps) :
          /\ o.kind = "confirm" /\ o.pc = "patch" /\ o.sent
          /\ o.booking.status = "pending"

\* workspaceId && email && booking.contact_id of the handler op
FormLinkDue(op) ==
    listProps.workspaceId /\ ~Falsy(op.email) /\ op.booking.contact_id # 0

\* C22: when the update to confirmed of sendConfirmationMessage fails, no
\* error is alerted and the status stays; the form link query is sent when
\* the handler has a workspace, an email and a contact, and else the success
\* notice and the refresh follow at once; a handler that is past its update
\* ends with the success notice and the refresh
C22_FailedUpdateSwallowed ==
    [][\A op \in BagToSet(staffOps) :
          /\ ConfirmPatchSettle(op, FALSE) =>
                /\ dbStatus' = dbStatus
                /\ notice' \in {Null, "Confirmation sent"}
                /\ IF FormLinkDue(op)
                   THEN FormLinkRequests # {} /\ notice' = Null
                   ELSE notice' = "Confirmation sent" /\ refreshing'
          /\ (\/ StaffFormSendSettle(op)
              \/ \E a \in FormLinkAnswers \ {"template"} : StaffFormLinkSettle(op, a))
                => notice' = "Confirmation sent" /\ refreshing'
      ]_vars

\* the update to confirmed of a handler started on a pending row failed, the
\* booking is still pending, and the handler stands at its form link query
C22_Witness ==
    /\ dbStatus = "pending"
    /\ \E o \in BagToSet(staffOps) :
          /\ o.kind = "confirm" /\ o.pc = "formq" /\ o.sent
          /\ o.booking.status = "pending"

\* the alerts that report a failure
ErrorAlerts ==
    {"Failed to update status", "Error sending confirmation",
     "Error sending confirmation: Authentication required"}

\* C23 as stated: every failed status update, of a button or of
\* sendConfirmationMessage, is followed by an alert that reports it, and after
\* a failed update of a button the status, the pending refresh and the row are
\* as before
C23_EveryStatusFailureAlerted ==
    [][\A op \in BagToSet(staffOps) :
          /\ (MarkSettle(op, FALSE) \/ ConfirmPatchSettle(op, FALSE)) =>
                notice' \in ErrorAlerts
          /\ MarkSettle(op, FALSE) =>
                /\ dbStatus' = dbStatus
                /\ refreshing' = refreshing
                /\ bookings' = bookings
      ]_vars

\* C23, amended: a failed update of the Mark completed or No-show button is
\* followed by the alert "Failed to update status", and the status, the
\* pending refresh, the row and its buttons are as before; a failed update to
\* confirmed of sendConfirmationMessage is followed by no alert that reports it
C23_ButtonFailureAlerted ==
    [][\A op \in BagToSet(staffOps) :
          /\ MarkSettle(op, FALSE) =>
                /\ notice' = "Failed to update status"
                /\ dbStatus' = dbStatus
                /\ refreshing' = refreshing
                /\ bookings' = bookings
                /\ ControlsRendered(bookings') <=> ControlsRendered(bookings)
          /\ ConfirmPatchSettle(op, FALSE) => notice' \notin ErrorAlerts
      ]_vars

\* the alert of a failed button update is open over a row that still has its
\* buttons, with no refresh asked for
C23_Witness ==
    /\ notice = "Failed to update status"
    /\ ControlsRendered(bookings)
    /\ ~refreshing

\* C24: the route, run for a confirmation request that passes its check of
\* the required fields, attempts the email exactly when the request has an
\* email and the SMS exactly when it has a phone number
C24_ChannelsByContact ==
    \A i \in 1 .. Len(handlerLog) :
        handlerLog[i].status \notin {400, 405} =>
            /\ handlerLog[i].emailAttempted <=> handlerLog[i].hasEmail
            /\ handlerLog[i].smsAttempted <=> handlerLog[i].hasPhone

\* the route answered 500 to a request with an email and a phone number after
\* the email send failed, and no SMS was attempted
C24_Witness ==
    \E i \in 1 .. Len(handlerLog) :
        /\ handlerLog[i].hasEmail /\ handlerLog[i].hasPhone
        /\ handlerLog[i].status = 500
        /\ handlerLog[i].emailAttempted /\ ~handlerLog[i].smsAttempted

\* the slot buttons of the date view are rendered
SlotsOffered ==
    DateViewShown /\ selectedDate # NoDate /\ ~loading /\ availableSlots # {}

\* the slot s was answered to a query for the selected type and date
ForSelection(s) == s.q_slug = selectedType /\ s.slot_start[1] = selectedDate

\* C25: the slots the wizard offers were answered for the selected type and
\* the selected date, and so was the selected slot
C25_SlotsOfSelection ==
    /\ SlotsOffered => \A s \in availableSlots : ForSelection(s)
    /\ selectedSlot # NoSlot => ForSelection(selectedSlot)

\* after a failed slot query the wizard offers the slots of another date
C25_Witness ==
    /\ SlotsOffered
    /\ error # Null
    /\ \E s \in availableSlots : s.slot_start[1] # selectedDate

\* C26: at the steps date and details a booking type is selected, and at the
\* step details a slot is selected, so the view of the step is rendered
C26_StepDataPresent ==
    /\ step \in {"date", "details"} => selectedType # NoType
    /\ step = "details" => selectedSlot # NoSlot
    /\ step = "type" => TypeViewShown
    /\ step = "date" => DateViewShown
    /\ step = "details" => DetailsViewShown

\* Back of the details view was taken while a submission was in flight: the
\* date view is shown, with the type and without a slot
C26_Witness ==
    /\ sub.pc # "idle"
    /\ step = "date"
    /\ selectedType # NoType
    /\ selectedSlot = NoSlot

CreationsInFlight == Cardinality(Issued("create")) - Len(results)

\* C28: at most one creation call is unsettled at any time, and from the start
\* of a submission until its creation and notification calls have all settled
\* the submit button is disabled, also after Back and a return to the details
\* view with another slot
C28_OneCreationInFlight ==
    /\ CreationsInFlight \in {0, 1}
    /\ (CreationsInFlight = 1) <=> (sub.pc = "create")
    /\ (sub.pc # "idle") => submitLoading

\* the creation call is unsettled and the user is back at the details view with
\* another slot than the one submitted
C28_Witness ==
    /\ sub.pc = "create"
    /\ DetailsViewShown
    /\ selectedSlot # NoSlot
    /\ selectedSlot # sub.slot
    /\ fullName # << >>
    /\ ContactPresent(email, phone)
    /\ nSubmits < MaxSubmits

\* the last submission has ended, at done after a creation call that succeeded
\* or with the error banner after one that failed
SubmissionEnded ==
    /\ ~submitLoading
    /\ sub.pc = "idle"
    /\ results # << >>
    /\ \/ results[Len(results)].outcome = "created" /\ step = "done"
       \/ results[Len(results)].outcome = "failed" /\ BannerShown

\* C29: with every network call of the pipeline eventually answered, a
\* submission that started eventually ends with submitLoading false and the
\* wizard at done, after a creation call that succeeded, or showing an error,
\* after one that failed
C29_SubmissionTerminates == submitLoading ~> SubmissionEnded

\* a submission ended after a creation call that failed, and no error is shown
C29_Witness ==
    /\ nSubmits > 0
    /\ sub.pc = "idle"
    /\ ~submitLoading
    /\ results # << >>
    /\ results[Len(results)].outcome = "failed"
    /\ error = ""

\* C30: the confirmation request of every booking created passes the required
\* field check of the route, which goes on to at least one delivery attempt
\* and does not answer 400
C30_ConfirmationPassesCheck ==
    \A i \in 1 .. Len(handlerLog) :
        /\ handlerLog[i].status # 400
        /\ handlerLog[i].emailAttempted \/ handlerLog[i].smsAttempted

\* the route answered 400 to the confirmation request of a booking created
\* with an email, and attempted no delivery
C30_Witness ==
    \E i \in 1 .. Len(handlerLog) :
        /\ \E k \in Succeeded : results[k].attempt = handlerLog[i].attempt
        /\ handlerLog[i].hasEmail
        /\ handlerLog[i].status = 400
        /\ ~handlerLog[i].emailAttempted
        /\ ~handlerLog[i].smsAttempted

====
